---------------------------- MODULE Spec2Model ----------------------------
(***************************************************************************)
(* XMODEM / XMODEM-1K sender and receiver of src/src/lib.rs, composed over *)
(* a duplex byte channel.  Bytes are integers 0..255, the channel is one   *)
(* byte sequence per direction, and every action is one step of send or    *)
(* recv between two blocking channel reads.                                *)
(***************************************************************************)
EXTENDS Integers, Sequences, FiniteSets, TLC

(* ------------------------------------------------------------------ *)
(* Wire constants (lib.rs 96-102) and defaults of Xmodem::new          *)
(* ------------------------------------------------------------------ *)
SOH == 1
STX == 2
EOT == 4
ACK == 6
NAK == 21
CAN == 24
CRC == 67

BlockStandard == 128
BlockOneK == 1024
DefaultMaxErrors == 16
DefaultPadByte == 26
CrcPoly == 4129

(* ------------------------------------------------------------------ *)
(* Bounds of the model                                                 *)
(* ------------------------------------------------------------------ *)
\* whole blocks of the longest inputs of the composed runs (lengths go one
\* byte past)
MaxBlocks == 1
\* read timeouts the channel may report in one composed run
MaxTimeouts == 2
\* data frames the channel may corrupt in one composed run
MaxCorrupt == 1
\* most noise bytes ahead of the transfer
MaxNoise == 2
\* largest error budget of the dead-channel runs
MaxDeadErrors == 3
\* blocks of the long transfer that wraps the sequence byte
LongBlocks == 258
\* most items (frames, single bytes) a peer puts on the line for recv
MaxScript == 2
\* most bytes a peer puts on the line for send
MaxAnswers == 3

(* ------------------------------------------------------------------ *)
(* Integrity module                                                    *)
(* ------------------------------------------------------------------ *)
RECURSIVE XorBits(_, _, _)
XorBits(a, b, n) ==
    IF n = 0 THEN 0
    ELSE (((a % 2) + (b % 2)) % 2) + 2 * XorBits(a \div 2, b \div 2, n - 1)

XorNib == [a \in 0..15 |-> [b \in 0..15 |-> XorBits(a, b, 4)]]

Xor8(a, b) == XorNib[a % 16][b % 16] + (16 * XorNib[a \div 16][b \div 16])

Xor16(a, b) == Xor8(a % 256, b % 256) + (256 * Xor8(a \div 256, b \div 256))

RECURSIVE CrcBits(_, _)
CrcBits(crc, n) ==
    IF n = 0 THEN crc
    ELSE CrcBits(IF crc >= 32768
                 THEN Xor16((crc * 2) % 65536, CrcPoly)
                 ELSE (crc * 2) % 65536, n - 1)

CrcTable == [i \in 0..255 |-> CrcBits(i * 256, 8)]

CrcStep(crc, byte) ==
    Xor16((crc * 256) % 65536, CrcTable[Xor8(crc \div 256, byte)])

\* left fold of CrcStep over data[lo..hi], split in halves to keep the
\* evaluation shallow (the test on left makes the left half's value be
\* computed before the right half starts)
RECURSIVE CrcRange(_, _, _, _)
CrcRange(crc, data, lo, hi) ==
    IF lo > hi THEN crc
    ELSE IF lo = hi THEN CrcStep(crc, data[lo])
    ELSE LET mid == (lo + hi) \div 2
             left == CrcRange(crc, data, lo, mid)
         IN  IF left >= 0 THEN CrcRange(left, data, mid + 1, hi) ELSE 0

calc_crc(data) == CrcRange(0, data, 1, Len(data))

\* left fold of wrapping_add over data[lo..hi]
RECURSIVE SumRange(_, _, _, _)
SumRange(x, data, lo, hi) ==
    IF lo > hi THEN x
    ELSE IF lo = hi THEN (x + data[lo]) % 256
    ELSE LET mid == (lo + hi) \div 2
             left == SumRange(x, data, lo, mid)
         IN  IF left >= 0 THEN SumRange(left, data, mid + 1, hi) ELSE 0

calc_checksum(data) == SumRange(0, data, 1, Len(data))

to_be_bytes(v) == <<v \div 256, v % 256>>

from_be_bytes(b) == (b[1] * 256) + b[2]

(* ------------------------------------------------------------------ *)
(* Packet codec                                                        *)
(* ------------------------------------------------------------------ *)
\* a constructor that zeroes the buffer whatever the pad byte
PacketNewZeroed(l, pad) == [seqno |-> 0, data |-> [i \in 1..l |-> 0]]

\* XmodemPacket::new: seqno 0 and a buffer of l bytes all equal to pad
PacketNew(l, pad) == [seqno |-> 0, data |-> [i \in 1..l |-> pad]]

\* the test data of tests/loopback.rs: data_out[idx] = ((idx+7) * 13) as u8
\* (i counts from 1)
TestByte(i) == (((i - 1) + 7) * 13) % 256

TestData(len) == [i \in 1..len |-> TestByte(i)]

\* Read for &[u8] on the test data of length len, pos bytes of it already
\* read: the next min(cap, remaining) bytes
StreamRead(len, pos, cap) ==
    LET n == IF len - pos < cap THEN len - pos ELSE cap
    IN  [n |-> n, bytes |-> [i \in 1..n |-> TestByte(pos + i)]]

\* the buffer after stream.read(packet.as_mut()) stored got in its front
FillPacket(p, got) ==
    [p EXCEPT !.data = [i \in 1..Len(p.data) |->
                           IF i <= Len(got) THEN got[i] ELSE p.data[i]]]

\* a sender that writes the CRC low byte first
ChecksumBytesLE(data, c) ==
    IF c = "Standard" THEN <<calc_checksum(data)>>
    ELSE <<(calc_crc(data)) % 256, (calc_crc(data)) \div 256>>


\* the redundancy bytes XmodemPacket::send writes after the payload
ChecksumBytes(data, c) ==
    IF c = "Standard" THEN <<calc_checksum(data)>>
    ELSE to_be_bytes(calc_crc(data))

\* XmodemPacket::send: the bytes written for packet p in checksum mode c
PacketSend(p, c) ==
    <<(IF Len(p.data) = BlockStandard THEN SOH ELSE STX),
      p.seqno, 255 - p.seqno>>
    \o p.data \o ChecksumBytes(p.data, c)

ChecksumLen(c) == IF c = "Standard" THEN 1 ELSE 2

\* bytes of a whole frame introduced by marker m in checksum mode c
FrameLen(m, c) ==
    3 + (IF m = SOH THEN BlockStandard ELSE BlockOneK) + ChecksumLen(c)

\* a recv_next that reports a failed seqno/complement check as soon as it
\* has read the complement
RecvNextEarlyMismatch(ch, c) ==
    LET m == ch[1]
    IN  IF m = EOT THEN [res |-> "Eot", used |-> 1, seqno |-> 0, data |-> <<>>]
        ELSE IF m \notin {SOH, STX}
        THEN [res |-> "Invalid", used |-> 1, seqno |-> 0, data |-> <<>>]
        ELSE IF 255 - ch[2] # ch[3]
        THEN [res |-> "SequenceMismatch", used |-> 3,
              seqno |-> ch[2], data |-> <<>>]
        ELSE
          LET l == IF m = SOH THEN BlockStandard ELSE BlockOneK
              data == SubSeq(ch, 4, 3 + l)
              checksum_ok ==
                  IF c = "Standard"
                  THEN calc_checksum(data) = ch[4 + l]
                  ELSE calc_crc(data) = from_be_bytes(<<ch[4 + l], ch[5 + l]>>)
          IN  IF checksum_ok
              THEN [res |-> "Packet", used |-> FrameLen(m, c),
                    seqno |-> ch[2], data |-> data]
              ELSE [res |-> "Checksum", used |-> FrameLen(m, c),
                    seqno |-> ch[2], data |-> <<>>]


\* XmodemPacket::recv_next on the unread bytes ch, when every byte it asks
\* for is there (or no further byte is asked for).  used is the number of
\* bytes consumed.
RecvNextFull(ch, c) ==
    LET m == ch[1]
    IN  IF m = EOT THEN [res |-> "Eot", used |-> 1, seqno |-> 0, data |-> <<>>]
        ELSE IF m \notin {SOH, STX}
        THEN [res |-> "Invalid", used |-> 1, seqno |-> 0, data |-> <<>>]
        ELSE
          LET l == IF m = SOH THEN BlockStandard ELSE BlockOneK
              recv_seqno == ch[2]
              recv_seqno1c == ch[3]
              data == SubSeq(ch, 4, 3 + l)
              checksum_ok ==
                  IF c = "Standard"
                  THEN calc_checksum(data) = ch[4 + l]
                  ELSE calc_crc(data) = from_be_bytes(<<ch[4 + l], ch[5 + l]>>)
              used == FrameLen(m, c)
          IN  IF 255 - recv_seqno # recv_seqno1c
              THEN [res |-> "SequenceMismatch", used |-> used,
                    seqno |-> recv_seqno, data |-> <<>>]
              ELSE IF checksum_ok
              THEN [res |-> "Packet", used |-> used,
                    seqno |-> recv_seqno, data |-> data]
              ELSE [res |-> "Checksum", used |-> used,
                    seqno |-> recv_seqno, data |-> <<>>]

\* bytes recv_next asks for, given the unread bytes ch (at least one)
RecvNextNeed(ch, c) ==
    IF ch[1] \in {SOH, STX} THEN FrameLen(ch[1], c) ELSE 1

(* ------------------------------------------------------------------ *)
(* Inputs and environments                                             *)
(* ------------------------------------------------------------------ *)
\* input lengths of the composed runs: one byte, and around the boundary
\* of MaxBlocks whole blocks
InputLens(bl) == {1} \cup {(MaxBlocks * bl) + d : d \in {-1, 0, 1}}

\* byte values the line may deliver ahead of the first frame: recv_next
\* tells SOH, STX and EOT from every other byte, CAN standing for those
NoiseToRecv == {CAN, SOH, EOT}
\* and ahead of the mode byte: start_send tells CAN from other bytes
NoiseToSend == {CAN, 85}

SeqsUpTo(S, n) == UNION {[1..k -> S] : k \in 1..n}

\* sink "vec": recv writes into a vector, as in the tests; sink "compare":
\* the sink keeps no bytes, only how many were written and whether each
\* was the byte the padded input has at its place; sink "slice": recv
\* writes into a byte slice of cap bytes (Write for &mut [u8]).  left is
\* the error count an earlier transfer left in the two Xmodem values.
\* flood holds the byte a peer keeps sending to the receiver without end,
\* if there is such a peer: a read that finds to_recv empty delivers it.
\* lose is the number of data frames, counted from the first, that the
\* line loses whole.
Quiet == [noise_r |-> <<>>, noise_s |-> <<>>, timeouts |-> 0,
          corrupt |-> 0, dead |-> FALSE, sink |-> "vec", cap |-> 0,
          left |-> 0, flood |-> {}, lose |-> 0]

\* what the line does in one composed run: noise injected ahead of the
\* transfer in one direction, or read timeouts, or corrupted frames
Envs ==
    {Quiet}
    \cup {[Quiet EXCEPT !.noise_r = n] : n \in SeqsUpTo(NoiseToRecv, MaxNoise)}
    \cup {[Quiet EXCEPT !.noise_s = n] : n \in SeqsUpTo(NoiseToSend, MaxNoise)}
    \cup {[Quiet EXCEPT !.timeouts = MaxTimeouts]}
    \cup {[Quiet EXCEPT !.corrupt = MaxCorrupt]}

(* ------------------------------------------------------------------ *)
(* State                                                               *)
(* ------------------------------------------------------------------ *)
VARIABLES
    \* configuration (struct Xmodem, the arguments of send and recv)
    block_length, pad_byte, max_errors, checksum, data_len,
    \* the line
    env, to_recv, to_send, timeouts_used, corrupt_used,
    \* send: position, Xmodem fields and locals
    s_pc, s_errors, s_checksum_mode, cancels, s_seqno, s_bytes, stream_pos,
    packet, s_result,
    \* recv: position, Xmodem fields and locals
    r_pc, r_errors, r_checksum_mode, r_seqno, r_bytes, outstream, r_result,
    \* history of send: frames written, ACKs read for them, the answer to
    \* the last frame, CAN bytes written
    s_sent, s_acked, s_last_resp, s_can,
    \* history of recv: bytes taken off the line, ACKs and NAKs written
    \* for frames, CAN bytes written, bytes written to the sink and whether
    \* each was the byte of the padded input at its place, parity of the
    \* number of calls of recv_next
    r_read, r_acks, r_naks, r_can, out_len, out_ok, r_turn

cfg_vars == <<block_length, pad_byte, max_errors, checksum, data_len, env>>
line_vars == <<to_recv, to_send, timeouts_used, corrupt_used>>
send_vars == <<s_pc, s_errors, s_checksum_mode, cancels, s_seqno, s_bytes,
               stream_pos, packet, s_result, s_sent, s_acked, s_last_resp,
               s_can>>
recv_vars == <<r_pc, r_errors, r_checksum_mode, r_seqno, r_bytes, outstream,
               r_result, r_read, r_acks, r_naks, r_can, out_len, out_ok,
               r_turn>>
vars == <<cfg_vars, line_vars, send_vars, recv_vars>>

\* the sender's input source: a byte slice, as in the tests
Input == TestData(data_len)

\* the i-th byte of the input followed by pad bytes
PaddedByte(i) == IF i <= data_len THEN TestByte(i) ELSE pad_byte

NoResult == [kind |-> "None", bytes |-> 0]
Ok(n) == [kind |-> "Ok", bytes |-> n]
Err(e) == [kind |-> e, bytes |-> 0]

\* the locals of send and recv before either call, the line and the sink
\* untouched
InitLocals ==
    /\ pad_byte = DefaultPadByte
    /\ timeouts_used = 0 /\ corrupt_used = 0
    /\ s_pc = "idle"
    /\ cancels = 0 /\ s_seqno = 0 /\ s_bytes = 0 /\ stream_pos = 0
    /\ packet = [seqno |-> 0, data |-> <<>>]
    /\ s_result = NoResult
    /\ r_pc = "idle"
    /\ r_seqno = 0 /\ r_bytes = 0 /\ outstream = <<>>
    /\ r_result = NoResult
    /\ s_sent = 0 /\ s_acked = 0 /\ s_last_resp = "None" /\ s_can = 0
    /\ r_read = 0 /\ r_acks = 0 /\ r_naks = 0 /\ r_can = 0 /\ r_turn = 0
    /\ out_len = 0 /\ out_ok = TRUE

\* Xmodem::new and the locals before either call
InitProgram ==
    /\ InitLocals
    /\ s_errors = 0 /\ s_checksum_mode = "Standard"
    /\ r_errors = 0 /\ r_checksum_mode = "Standard"

Init ==
    /\ block_length \in {BlockStandard, BlockOneK}
    /\ checksum \in {"Standard", "CRC16"}
    /\ max_errors \in {1, 2, DefaultMaxErrors}
    /\ data_len \in InputLens(block_length)
    /\ env \in Envs
    /\ to_recv = env.noise_r
    /\ to_send = env.noise_s
    /\ InitProgram

(* ------------------------------------------------------------------ *)
(* The line                                                            *)
(* ------------------------------------------------------------------ *)
\* a read may report a timeout
CanTimeout == env.dead \/ timeouts_used < env.timeouts

\* write_all on the channel: a dead line delivers nothing
Write(ch, bytes) == IF env.dead THEN ch ELSE ch \o bytes

\* write_all of data frame number k: the line loses the first env.lose
WriteFrame(ch, bytes, k) == IF k <= env.lose THEN ch ELSE Write(ch, bytes)

TimedOut == -1

\* get_byte_timeout on the sender's side: the next unread byte, or a
\* timeout while nothing is there to read
\* the frame the sender awaits the answer to was lost: no answer comes
AnswerLost == s_pc = "await_ack" /\ s_sent <= env.lose

SenderReads ==
    IF ~env.dead /\ to_send # <<>> THEN {Head(to_send)}
    ELSE IF CanTimeout \/ AnswerLost THEN {TimedOut}
    ELSE {}

AfterSenderRead(b) ==
    /\ to_send' = IF b = TimedOut THEN to_send ELSE Tail(to_send)
    /\ timeouts_used' = IF b = TimedOut /\ ~env.dead
                        THEN timeouts_used + 1 ELSE timeouts_used

\* recv_next on the receiver's side: the decode of the unread bytes when
\* all it asks for is there, or a timeout that leaves nothing unread
RecvNextResults ==
    IF ~env.dead /\ to_recv # <<>>
    THEN IF Len(to_recv) >= RecvNextNeed(to_recv, r_checksum_mode)
         THEN {RecvNextFull(to_recv, r_checksum_mode)}
         ELSE IF CanTimeout
         THEN {[res |-> "TimedOut", used |-> Len(to_recv), seqno |-> 0,
                data |-> <<>>]}
         ELSE {}
    ELSE IF ~env.dead /\ env.flood # {}
    THEN \* the byte read is the peer's next one, none is taken off to_recv
         {[RecvNextFull(<<b>>, r_checksum_mode) EXCEPT !.used = 0] :
            b \in env.flood}
    ELSE IF CanTimeout
    THEN {[res |-> "TimedOut", used |-> 0, seqno |-> 0, data |-> <<>>]}
    ELSE {}

\* recv_next returns: RecvNextResults is not empty
RecvNextReturns ==
    \/ CanTimeout
    \/ ~env.dead /\ env.flood # {}
    \/ /\ ~env.dead /\ to_recv # <<>>
       /\ Len(to_recv) >= RecvNextNeed(to_recv, r_checksum_mode)

\* the line alters the first payload byte of the frame the receiver will
\* read next
CorruptGuard ==
    /\ corrupt_used < env.corrupt
    /\ Len(to_recv) >= 4
    /\ to_recv[1] \in {SOH, STX}
    /\ Len(to_recv) >= FrameLen(to_recv[1], s_checksum_mode)

Corrupt ==
    /\ CorruptGuard
    /\ to_recv' = [to_recv EXCEPT ![4] = (@ + 1) % 256]
    /\ corrupt_used' = corrupt_used + 1
    /\ UNCHANGED <<cfg_vars, to_send, timeouts_used, send_vars, recv_vars>>

(* ------------------------------------------------------------------ *)
(* send                                                                *)
(* ------------------------------------------------------------------ *)
\* a send that starts with the error count it finds
SendKeepsErrors ==
    /\ s_pc = "idle"
    /\ cancels' = 0
    /\ s_pc' = "start_send"
    /\ UNCHANGED <<cfg_vars, line_vars, recv_vars, s_errors, s_checksum_mode,
                   s_seqno, s_bytes, stream_pos, packet, s_result, s_sent,
                   s_acked, s_last_resp, s_can>>


\* send, up to the first read of start_send
Send ==
    /\ s_pc = "idle"
    /\ s_errors' = 0
    /\ cancels' = 0
    /\ s_pc' = "start_send"
    /\ UNCHANGED <<cfg_vars, line_vars, recv_vars, s_checksum_mode, s_seqno,
                   s_bytes, stream_pos, packet, s_result, s_sent, s_acked,
                   s_last_resp, s_can>>

\* a start_send that gives up only once the count is over the budget
StartSendFaultLate(b, ncancels, nerrors, budget) ==
    LET c2 == IF b = CAN THEN ncancels + 1 ELSE ncancels
        e2 == nerrors + 1
    IN  [cancels |-> c2, errors |-> e2,
         exit |-> IF c2 >= 2 THEN "Canceled"
                  ELSE IF e2 > budget THEN "ExhaustedRetries"
                  ELSE "None"]

\* start_send after a byte that is neither NAK nor CRC, or a timeout:
\* the cancel count, the error count, and how the loop goes on
StartSendFault(b, ncancels, nerrors, budget) ==
    LET c2 == IF b = CAN THEN ncancels + 1 ELSE ncancels
        e2 == nerrors + 1
    IN  [cancels |-> c2, errors |-> e2,
         exit |-> IF c2 >= 2 THEN "Canceled"
                  ELSE IF e2 >= budget THEN "ExhaustedRetries"
                  ELSE "None"]

\* one turn of the loop of start_send
StartSend ==
    /\ s_pc = "start_send"
    /\ \E b \in SenderReads :
         /\ AfterSenderRead(b)
         /\ IF b \in {NAK, CRC}
            THEN /\ s_checksum_mode' = (IF b = NAK THEN "Standard" ELSE "CRC16")
                 /\ s_pc' = "send_stream"
                 /\ s_seqno' = 0
                 /\ s_bytes' = 0
                 /\ UNCHANGED <<cancels, s_errors, s_result, s_can, to_recv>>
            ELSE LET f == StartSendFault(b, cancels, s_errors, max_errors)
                 IN  /\ cancels' = f.cancels
                     /\ s_errors' = f.errors
                     /\ s_pc' = IF f.exit = "None" THEN "start_send" ELSE "done"
                     /\ s_result' = IF f.exit = "None" THEN s_result
                                    ELSE Err(f.exit)
                     /\ to_recv' = IF f.exit = "ExhaustedRetries"
                                   THEN Write(to_recv, <<CAN>>) ELSE to_recv
                     /\ s_can' = IF f.exit = "ExhaustedRetries"
                                 THEN s_can + 1 ELSE s_can
                     /\ UNCHANGED <<s_checksum_mode, s_seqno, s_bytes>>
    /\ UNCHANGED <<cfg_vars, corrupt_used, recv_vars, stream_pos, packet,
                   s_sent, s_acked, s_last_resp>>

\* a send_stream that numbers its first block 0
NextPacketFromZero(got, seqno) ==
    [FillPacket(PacketNew(block_length, pad_byte), got)
       EXCEPT !.seqno = (seqno - 1) % 256]

\* the packet send_stream builds from what stream.read returned
NextPacket(got, seqno) ==
    [FillPacket(PacketNew(block_length, pad_byte), got)
       EXCEPT !.seqno = seqno % 256]

\* a send_stream that goes on to its next block without awaiting the ACK
SendBlockNoWait ==
    /\ s_pc = "send_stream"
    /\ LET rd == StreamRead(data_len, stream_pos, block_length)
       IN  IF rd.n = 0
           THEN /\ s_pc' = "finish_send"
                /\ UNCHANGED <<s_seqno, packet, to_recv, s_bytes, stream_pos,
                               s_sent>>
           ELSE /\ s_seqno' = s_seqno + 1
                /\ packet' = NextPacket(rd.bytes, s_seqno + 1)
                /\ to_recv' = Write(to_recv, PacketSend(packet', s_checksum_mode))
                /\ s_bytes' = s_bytes + rd.n
                /\ stream_pos' = stream_pos + rd.n
                /\ s_sent' = s_sent + 1
                /\ s_pc' = "send_stream"
    /\ UNCHANGED <<cfg_vars, to_send, timeouts_used, corrupt_used, recv_vars,
                   s_errors, s_checksum_mode, cancels, s_result, s_acked,
                   s_last_resp, s_can>>


\* send_stream from the top of its loop to the read that awaits the ACK,
\* or to its return at the end of the input
SendBlock ==
    /\ s_pc = "send_stream"
    /\ LET rd == StreamRead(data_len, stream_pos, block_length)
       IN  IF rd.n = 0
           THEN /\ s_pc' = "finish_send"
                /\ UNCHANGED <<s_seqno, packet, to_recv, s_bytes, stream_pos,
                               s_sent>>
           ELSE /\ s_seqno' = s_seqno + 1
                /\ packet' = NextPacket(rd.bytes, s_seqno + 1)
                /\ to_recv' = WriteFrame(to_recv,
                                          PacketSend(packet', s_checksum_mode),
                                          s_sent + 1)
                /\ s_bytes' = s_bytes + rd.n
                /\ stream_pos' = stream_pos + rd.n
                /\ s_sent' = s_sent + 1
                /\ s_pc' = "await_ack"
    /\ UNCHANGED <<cfg_vars, to_send, timeouts_used, corrupt_used, recv_vars,
                   s_errors, s_checksum_mode, cancels, s_result, s_acked,
                   s_last_resp, s_can>>

\* send_stream or finish_send after an answer that is not ACK: the error
\* count and whether the budget is exhausted
\* a fault after a block or after EOT that ends the transfer only when the
\* count has gone past the budget
AckFaultLate(nerrors, budget) ==
    [errors |-> nerrors + 1,
     exit |-> IF nerrors + 1 > budget THEN "ExhaustedRetries" ELSE "None"]


AckFault(nerrors, budget) ==
    [errors |-> nerrors + 1,
     exit |-> IF nerrors + 1 >= budget THEN "ExhaustedRetries" ELSE "None"]

\* send_stream from the read of the answer to the top of its loop
AwaitAck ==
    /\ s_pc = "await_ack"
    /\ \E b \in SenderReads :
         /\ AfterSenderRead(b)
         /\ IF b = ACK
            THEN /\ s_pc' = "send_stream"
                 /\ s_acked' = s_acked + 1
                 /\ s_last_resp' = "Ack"
                 /\ UNCHANGED <<s_errors, s_result>>
            ELSE LET f == AckFault(s_errors, max_errors)
                 IN  /\ s_errors' = f.errors
                     /\ s_last_resp' = IF b = TimedOut THEN "Timeout" ELSE "Other"
                     /\ s_pc' = IF f.exit = "None" THEN "send_stream" ELSE "done"
                     /\ s_result' = IF f.exit = "None" THEN s_result
                                    ELSE Err(f.exit)
                     /\ UNCHANGED s_acked
    /\ UNCHANGED <<cfg_vars, to_recv, corrupt_used, recv_vars, s_checksum_mode,
                   cancels, s_seqno, s_bytes, stream_pos, packet, s_sent,
                   s_can>>

\* finish_send from the top of its loop to the read that awaits the ACK
FinishSend ==
    /\ s_pc = "finish_send"
    /\ to_recv' = Write(to_recv, <<EOT>>)
    /\ s_pc' = "await_eot"
    /\ UNCHANGED <<cfg_vars, to_send, timeouts_used, corrupt_used, recv_vars,
                   s_errors, s_checksum_mode, cancels, s_seqno, s_bytes,
                   stream_pos, packet, s_result, s_sent, s_acked, s_last_resp,
                   s_can>>

\* finish_send from the read of the answer on; with ACK send returns the
\* byte count of send_stream
AwaitEot ==
    /\ s_pc = "await_eot"
    /\ \E b \in SenderReads :
         /\ AfterSenderRead(b)
         /\ IF b = ACK
            THEN /\ s_pc' = "done"
                 /\ s_result' = Ok(s_bytes)
                 /\ UNCHANGED s_errors
            ELSE LET f == AckFault(s_errors, max_errors)
                 IN  /\ s_errors' = f.errors
                     /\ s_pc' = IF f.exit = "None" THEN "finish_send" ELSE "done"
                     /\ s_result' = IF f.exit = "None" THEN s_result
                                    ELSE Err(f.exit)
    /\ UNCHANGED <<cfg_vars, to_recv, corrupt_used, recv_vars, s_checksum_mode,
                   cancels, s_seqno, s_bytes, stream_pos, packet, s_sent,
                   s_acked, s_last_resp, s_can>>

(* ------------------------------------------------------------------ *)
(* recv                                                                *)
(* ------------------------------------------------------------------ *)
\* the mode-request byte of recv
ModeRequest(c) == IF c = "Standard" THEN NAK ELSE CRC

\* recv, up to the top of its loop
Recv ==
    /\ r_pc = "idle"
    /\ r_errors' = 0
    /\ r_checksum_mode' = checksum
    /\ to_send' = Write(to_send, <<ModeRequest(checksum)>>)
    /\ r_seqno' = 1
    /\ r_bytes' = 0
    /\ r_pc' = "recv_loop"
    /\ UNCHANGED <<cfg_vars, to_recv, timeouts_used, corrupt_used, send_vars,
                   outstream, r_result, r_read, r_acks, r_naks, r_can,
                   out_len, out_ok, r_turn>>

\* a recv that compares the sequence byte with the untruncated counter
RecvHandleNoWrap(o, seqno, nerrors) ==
    LET base == [out |-> <<>>, sink |-> <<>>, seqno |-> seqno,
                 errors |-> nerrors, exit |-> "None", accepted |-> FALSE]
    IN  CASE o.res = "Packet" ->
               IF o.seqno # seqno
               THEN [base EXCEPT !.out = <<CAN, CAN>>, !.exit = "Canceled"]
               ELSE [base EXCEPT !.sink = o.data, !.out = <<ACK>>,
                                 !.seqno = seqno + 1, !.accepted = TRUE]
          [] o.res = "Eot" -> [base EXCEPT !.out = <<ACK>>, !.exit = "Ok"]
          [] o.res = "TimedOut" -> [base EXCEPT !.errors = nerrors + 1]
          [] o.res = "Checksum" ->
               [base EXCEPT !.out = <<NAK>>, !.errors = nerrors + 1]
          [] o.res = "SequenceMismatch" ->
               [base EXCEPT !.out = <<CAN, CAN>>, !.exit = "Canceled"]
          [] OTHER -> base

\* a recv that answers a frame it did not expect with NAK and tries again
RecvHandleRetryDesync(o, seqno, nerrors) ==
    LET base == [out |-> <<>>, sink |-> <<>>, seqno |-> seqno,
                 errors |-> nerrors, exit |-> "None", accepted |-> FALSE]
    IN  CASE o.res = "Packet" ->
               IF o.seqno # seqno % 256
               THEN [base EXCEPT !.out = <<NAK>>, !.errors = nerrors + 1]
               ELSE [base EXCEPT !.sink = o.data, !.out = <<ACK>>,
                                 !.seqno = seqno + 1, !.accepted = TRUE]
          [] o.res = "Eot" -> [base EXCEPT !.out = <<ACK>>, !.exit = "Ok"]
          [] o.res = "TimedOut" -> [base EXCEPT !.errors = nerrors + 1]
          [] o.res = "Checksum" ->
               [base EXCEPT !.out = <<NAK>>, !.errors = nerrors + 1]
          [] o.res = "SequenceMismatch" ->
               [base EXCEPT !.out = <<NAK>>, !.errors = nerrors + 1]
          [] OTHER -> base

\* what one turn of the loop of recv does with the result o of recv_next:
\* bytes written to the channel, to the sink, the counters, how it goes on
\* a recv that counts a checksum error without asking for the frame again
RecvHandleSilentChecksum(o, seqno, nerrors) ==
    LET base == [out |-> <<>>, sink |-> <<>>, seqno |-> seqno,
                 errors |-> nerrors, exit |-> "None", accepted |-> FALSE]
    IN  CASE o.res = "Packet" ->
               IF o.seqno # seqno % 256
               THEN [base EXCEPT !.out = <<CAN, CAN>>, !.exit = "Canceled"]
               ELSE [base EXCEPT !.sink = o.data, !.out = <<ACK>>,
                                 !.seqno = seqno + 1, !.accepted = TRUE]
          [] o.res = "Eot" -> [base EXCEPT !.out = <<ACK>>, !.exit = "Ok"]
          [] o.res = "TimedOut" -> [base EXCEPT !.errors = nerrors + 1]
          [] o.res = "Checksum" -> [base EXCEPT !.errors = nerrors + 1]
          [] o.res = "SequenceMismatch" ->
               [base EXCEPT !.out = <<CAN, CAN>>, !.exit = "Canceled"]
          [] OTHER -> base

\* a recv that treats an unrecognized leading byte as a checksum error
RecvHandleNakInvalid(o, seqno, nerrors) ==
    LET base == [out |-> <<>>, sink |-> <<>>, seqno |-> seqno,
                 errors |-> nerrors, exit |-> "None", accepted |-> FALSE]
    IN  CASE o.res = "Packet" ->
               IF o.seqno # seqno % 256
               THEN [base EXCEPT !.out = <<CAN, CAN>>, !.exit = "Canceled"]
               ELSE [base EXCEPT !.sink = o.data, !.out = <<ACK>>,
                                 !.seqno = seqno + 1, !.accepted = TRUE]
          [] o.res = "Eot" -> [base EXCEPT !.out = <<ACK>>, !.exit = "Ok"]
          [] o.res = "TimedOut" -> [base EXCEPT !.errors = nerrors + 1]
          [] o.res = "SequenceMismatch" ->
               [base EXCEPT !.out = <<CAN, CAN>>, !.exit = "Canceled"]
          [] OTHER -> [base EXCEPT !.out = <<NAK>>, !.errors = nerrors + 1]


RecvHandle(o, seqno, nerrors) ==
    LET base == [out |-> <<>>, sink |-> <<>>, seqno |-> seqno,
                 errors |-> nerrors, exit |-> "None", accepted |-> FALSE]
    IN  CASE o.res = "Packet" ->
               IF o.seqno # seqno % 256
               THEN [base EXCEPT !.out = <<CAN, CAN>>, !.exit = "Canceled"]
               ELSE [base EXCEPT !.sink = o.data, !.out = <<ACK>>,
                                 !.seqno = seqno + 1, !.accepted = TRUE]
          [] o.res = "Eot" -> [base EXCEPT !.out = <<ACK>>, !.exit = "Ok"]
          [] o.res = "TimedOut" -> [base EXCEPT !.errors = nerrors + 1]
          [] o.res = "Checksum" ->
               [base EXCEPT !.out = <<NAK>>, !.errors = nerrors + 1]
          [] o.res = "SequenceMismatch" ->
               [base EXCEPT !.out = <<CAN, CAN>>, !.exit = "Canceled"]
          [] OTHER -> base

CountOf(b, bytes) == Cardinality({i \in DOMAIN bytes : bytes[i] = b})

\* a sink that never fails
SinkNeverFull(data) == TRUE

\* outstream.write_all(data) succeeds: a vector takes everything, a slice
\* what it has room for
SinkFits(data) == env.sink # "slice" \/ Len(data) <= env.cap - out_len

\* the bytes the sink takes of data: write on a slice copies what fits
\* before write_all reports the failure
SinkTaken(data) ==
    IF SinkFits(data) THEN data ELSE SubSeq(data, 1, env.cap - out_len)

\* a recv that writes its answer to the channel before it writes the
\* payload to the sink
AcceptOutAckFirst(fits, out) == IF fits THEN out ELSE out \o <<CAN, CAN>>

\* what recv writes to the channel for an accepted frame: ACK after the
\* sink took the payload, CAN CAN when the sink failed
AcceptOut(fits, out) == IF fits THEN out ELSE <<CAN, CAN>>

\* one turn of the loop of recv
RecvLoop ==
    /\ r_pc = "recv_loop"
    /\ IF r_errors >= max_errors
       THEN /\ to_send' = Write(to_send, <<CAN, CAN>>)
            /\ r_can' = r_can + 2
            /\ r_result' = Err("ExhaustedRetries")
            /\ r_pc' = "done"
            /\ UNCHANGED <<to_recv, timeouts_used, r_errors, r_seqno, r_bytes,
                           outstream, r_read, r_acks, r_naks, out_len, out_ok,
                           r_turn>>
       ELSE \E o \in RecvNextResults :
              LET h == RecvHandle(o, r_seqno, r_errors)
                  fits == SinkFits(h.sink)
                  taken == SinkTaken(h.sink)
                  out == AcceptOut(fits, h.out)
              IN  /\ to_recv' = SubSeq(to_recv, o.used + 1, Len(to_recv))
                  /\ timeouts_used' = IF o.res = "TimedOut" /\ ~env.dead
                                      THEN timeouts_used + 1 ELSE timeouts_used
                  /\ r_read' = r_read + o.used
                  /\ r_turn' = 1 - r_turn
                  /\ to_send' = Write(to_send, out)
                  /\ outstream' = IF env.sink = "compare" THEN outstream
                                   ELSE outstream \o taken
                  /\ out_len' = out_len + Len(taken)
                  /\ out_ok' = (out_ok /\ \A i \in 1..Len(taken) :
                                            taken[i] = PaddedByte(out_len + i))
                  /\ r_bytes' = IF fits THEN r_bytes + Len(h.sink) ELSE r_bytes
                  /\ r_seqno' = IF fits THEN h.seqno ELSE r_seqno
                  /\ r_errors' = h.errors
                  /\ r_acks' = IF h.accepted /\ fits THEN r_acks + 1 ELSE r_acks
                  /\ r_naks' = r_naks + CountOf(NAK, out)
                  /\ r_can' = r_can + CountOf(CAN, out)
                  /\ r_pc' = IF h.exit = "None" /\ fits THEN "recv_loop"
                             ELSE "done"
                  /\ r_result' = IF ~fits THEN Err("Io")
                                 ELSE IF h.exit = "None" THEN r_result
                                 ELSE IF h.exit = "Ok" THEN Ok(r_bytes)
                                 ELSE Err(h.exit)
    /\ UNCHANGED <<cfg_vars, corrupt_used, send_vars, r_checksum_mode>>

(* ------------------------------------------------------------------ *)
(* Specifications                                                      *)
(* ------------------------------------------------------------------ *)
SenderNext == Send \/ StartSend \/ SendBlock \/ AwaitAck \/ FinishSend \/ AwaitEot

ReceiverNext == Recv \/ RecvLoop

Next == SenderNext \/ ReceiverNext \/ Corrupt

Spec == Init /\ [][Next]_vars

\* A dead line: every read of either side times out, nothing written is
\* delivered.  Each call runs in a thread of its own and every read
\* returns when its timeout expires, so each side keeps taking steps.
DeadInit ==
    /\ block_length \in {BlockStandard, BlockOneK}
    /\ checksum \in {"Standard", "CRC16"}
    /\ max_errors \in 0..MaxDeadErrors
    /\ data_len \in InputLens(block_length)
    /\ env = [Quiet EXCEPT !.dead = TRUE]
    /\ to_recv = <<>>
    /\ to_send = <<>>
    /\ InitProgram

SenderDeadNext == Send \/ StartSend

DeadNext == SenderDeadNext \/ ReceiverNext

DeadSpec ==
    DeadInit /\ [][DeadNext]_vars
    /\ WF_vars(SenderDeadNext) /\ WF_vars(ReceiverNext)

\* A quiet line and an input of LongBlocks blocks of 128 bytes, the last
\* one short, received into a comparing sink.
LongInit ==
    /\ block_length = BlockStandard
    /\ checksum \in {"Standard", "CRC16"}
    /\ max_errors = DefaultMaxErrors
    /\ data_len = ((LongBlocks - 1) * BlockStandard) + 1
    /\ env = [Quiet EXCEPT !.sink = "compare"]
    /\ to_recv = <<>>
    /\ to_send = <<>>
    /\ InitProgram

LongNext == SenderNext \/ ReceiverNext

LongSpec == LongInit /\ [][LongNext]_vars

\* send and recv against each other, after a peer or the line has put up to
\* MaxAnswers bytes in front of the receiver's mode request
Answers == {CAN, 85, NAK, CRC}

HandshakeInit ==
    /\ block_length = BlockStandard
    /\ checksum \in {"Standard", "CRC16"}
    /\ max_errors \in {3, DefaultMaxErrors}
    /\ data_len \in {1, BlockStandard + 1}
    /\ env \in {[Quiet EXCEPT !.noise_s = a] :
                  a \in {<<>>} \cup SeqsUpTo(Answers, MaxAnswers)}
    /\ to_recv = <<>>
    /\ to_send = env.noise_s
    /\ InitProgram

HandshakeNext == SenderNext \/ ReceiverNext

HandshakeSpec == HandshakeInit /\ [][HandshakeNext]_vars


\* send and recv on Xmodem values that an earlier transfer has used: the
\* error counters start at what it left.  One stray byte reaches the
\* sender ahead of the mode request and reads may time out, so that the
\* handshake, the block transmission and the EOT phase can each count a
\* fault.
LeftErrors == {0, 1, DefaultMaxErrors}

ReuseInit ==
    /\ block_length = BlockStandard
    /\ checksum \in {"Standard", "CRC16"}
    /\ max_errors \in {2, 3}
    /\ data_len \in {1, BlockStandard + 1}
    /\ env \in {[Quiet EXCEPT !.left = n] : n \in LeftErrors}
           \cup {[Quiet EXCEPT !.left = n, !.noise_s = <<85>>,
                               !.timeouts = MaxTimeouts] : n \in LeftErrors}
    /\ to_recv = <<>>
    /\ to_send = env.noise_s
    /\ InitLocals
    /\ s_errors = env.left /\ r_errors = env.left
    /\ s_checksum_mode \in {"Standard", "CRC16"}
    /\ r_checksum_mode = s_checksum_mode

ReuseNext == SenderNext \/ ReceiverNext

ReuseSpec == ReuseInit /\ [][ReuseNext]_vars


\* recv against a peer that has put a script of items on the line: well
\* formed frames of blocks 1 and 2, a frame with a wrong redundancy byte,
\* one with a wrong complement, a 1K frame, EOT, a stray byte.  The sink
\* is a vector or a slice of SinkCaps bytes; reads time out once the line
\* is empty.
PeerItems ==
    {[kind |-> "frame", seq |-> 1], [kind |-> "frame", seq |-> 2],
     [kind |-> "badsum", seq |-> 1], [kind |-> "badcomp", seq |-> 1],
     [kind |-> "onek", seq |-> 1], [kind |-> "eot", seq |-> 0],
     [kind |-> "stray", seq |-> 0]}

\* block k of the test data, bl bytes
TestBlock(k, bl) == [i \in 1..bl |-> TestByte(((k - 1) * bl) + i)]

ItemBytes(item, c) ==
    LET bl == IF item.kind = "onek" THEN BlockOneK ELSE BlockStandard
        f == PacketSend([seqno |-> item.seq, data |-> TestBlock(item.seq, bl)], c)
    IN  CASE item.kind \in {"frame", "onek"} -> f
          [] item.kind = "badsum" -> [f EXCEPT ![Len(f)] = (@ + 1) % 256]
          [] item.kind = "badcomp" -> [f EXCEPT ![3] = (@ + 1) % 256]
          [] item.kind = "eot" -> <<EOT>>
          [] OTHER -> <<CAN>>

RECURSIVE ScriptBytes(_, _)
ScriptBytes(script, c) ==
    IF script = <<>> THEN <<>>
    ELSE ItemBytes(Head(script), c) \o ScriptBytes(Tail(script), c)

SinkCaps == {100, BlockStandard}

RecvEnvs ==
    {[Quiet EXCEPT !.timeouts = MaxTimeouts]}
    \cup {[Quiet EXCEPT !.timeouts = MaxTimeouts, !.sink = "slice", !.cap = n] :
            n \in SinkCaps}

RecvInit ==
    /\ block_length = BlockStandard
    /\ checksum \in {"Standard", "CRC16"}
    /\ max_errors = 2
    /\ data_len = 2 * BlockStandard
    /\ env \in RecvEnvs
    /\ \E script \in SeqsUpTo(PeerItems, MaxScript) :
          to_recv = ScriptBytes(script, checksum)
    /\ to_send = <<>>
    /\ InitProgram

RecvSpec == RecvInit /\ [][ReceiverNext]_vars

\* A line that loses the first 256 data frames whole and alters nothing:
\* the sender finds no answer to a lost frame and its read times out; the
\* receiver's reads wait.  The input is 256 whole blocks of 128 bytes and
\* one byte more, the budget is above the number of frames lost, the sink
\* compares.
LossInit ==
    /\ block_length = BlockStandard
    /\ checksum = "Standard"
    /\ max_errors = 2 * LongBlocks
    /\ data_len = ((LongBlocks - 2) * BlockStandard) + 1
    /\ env = [Quiet EXCEPT !.lose = LongBlocks - 2, !.sink = "compare"]
    /\ to_recv = <<>>
    /\ to_send = <<>>
    /\ InitProgram

LossNext == SenderNext \/ ReceiverNext

LossSpec == LossInit /\ [][LossNext]_vars

\* recv against a peer that, behind up to MaxNoise bytes that are stray
\* bytes or EOT, keeps sending one byte that is none of SOH, STX, EOT:
\* every read of the receiver delivers a byte.  recv runs in a thread of
\* its own and keeps taking steps.
FloodBytes == {0, CAN, ACK}

FloodInit ==
    /\ block_length = BlockStandard
    /\ checksum \in {"Standard", "CRC16"}
    /\ max_errors \in {1, 2, DefaultMaxErrors}
    /\ data_len = 1
    /\ env \in {[Quiet EXCEPT !.flood = {b}] : b \in FloodBytes}
    /\ to_recv \in {<<>>} \cup SeqsUpTo(FloodBytes \cup {EOT}, MaxNoise)
    /\ to_send = <<>>
    /\ InitProgram

FloodNext == ReceiverNext

FloodSpec == FloodInit /\ [][FloodNext]_vars /\ WF_vars(ReceiverNext)

(* ------------------------------------------------------------------ *)
(* Vocabulary of the properties                                        *)
(* ------------------------------------------------------------------ *)
Pads(n) == [i \in 1..n |-> pad_byte]

\* the input followed by the padding of the tests: bl - L % bl pad bytes
TestPadded == Input \o Pads(block_length - (data_len % block_length))

\* what a transfer over a quiet line delivers: the input padded to whole
\* blocks, an input of whole blocks unchanged
Delivered == Input \o Pads((block_length - (data_len % block_length)) % block_length)

Done == s_pc = "done" /\ r_pc = "done"

\* send is not at a read that neither delivers a byte nor times out
SenderRuns ==
    \/ s_pc \in {"idle", "send_stream", "finish_send"}
    \/ s_pc \in {"start_send", "await_ack", "await_eot"} /\ SenderReads # {}

\* the same for recv
ReceiverRuns ==
    \/ r_pc = "idle"
    \/ r_pc = "recv_loop" /\ (r_errors >= max_errors \/ RecvNextReturns)

\* some step of the run is possible
Running == SenderRuns \/ ReceiverRuns \/ CorruptGuard

BothOk == s_result.kind = "Ok" /\ r_result.kind = "Ok"

\* a turn of the loop of recv that calls recv_next, and what recv_next
\* returns in it
RecvTurn ==
    r_pc = "recv_loop" /\ r_errors < max_errors /\ recv_vars' # recv_vars

Decoded == CHOOSE o \in RecvNextResults : TRUE

\* the line only delivers noise to the receiver, ahead of the first frame
NoiseOnlyToRecv ==
    env.noise_r # <<>> /\ env = [Quiet EXCEPT !.noise_r = env.noise_r]

(* ------------------------------------------------------------------ *)
(* C1  Round trip over a quiet line, input length not a multiple of    *)
(*     the block length: the run goes on until both calls have         *)
(*     returned; send returns Ok(L); recv returns Ok(padded length)    *)
(*     and the sink holds the input followed by bl - L % bl pad bytes; *)
(*     nothing of this depends on the checksum mode.                   *)
(* ------------------------------------------------------------------ *)
C1_RoundTrip ==
    (env = Quiet /\ data_len % block_length # 0) =>
        /\ Done \/ Running
        /\ s_pc = "done" => s_result = Ok(data_len)
        /\ r_pc = "done" =>
             /\ r_result = Ok(data_len + (block_length - (data_len % block_length)))
             /\ outstream = TestPadded
             /\ pad_byte = DefaultPadByte

C1_Witness ==
    /\ env = Quiet /\ Done /\ BothOk
    /\ block_length = BlockOneK /\ checksum = "CRC16"
    /\ data_len = BlockOneK + 1
    /\ Len(outstream) = 2 * BlockOneK

(* ------------------------------------------------------------------ *)
(* C2  Boundary policy.  As claimed: an input of a positive whole      *)
(*     number of blocks is followed by one more block of pad bytes,    *)
(*     the sink receiving L + block_length bytes.                      *)
(* ------------------------------------------------------------------ *)
C2_ExtraPadBlock ==
    (env = Quiet /\ data_len % block_length = 0 /\ r_result.kind = "Ok") =>
        /\ outstream = TestPadded
        /\ r_result.bytes = data_len + block_length

\* C2 as amended: over a quiet line an input of a positive whole number of
\* blocks is delivered as it is: send writes exactly L / block_length
\* frames, both calls return Ok(L) and the sink holds exactly the input.
C2_NoExtraBlock ==
    (env = Quiet /\ data_len % block_length = 0) =>
        /\ Done \/ Running
        /\ s_sent <= data_len \div block_length
        /\ s_pc = "done" => s_result = Ok(data_len)
        /\ r_pc = "done" => r_result = Ok(data_len) /\ outstream = Input

C2_Witness ==
    /\ env = Quiet /\ Done /\ BothOk
    /\ data_len = block_length
    /\ s_sent = 1
    /\ outstream = Input

(* ------------------------------------------------------------------ *)
(* C3  Sender retransmission: when the answer to the last frame was    *)
(*     not ACK (another byte, or a timeout) and send writes a frame    *)
(*     again, that frame carries the same sequence byte and payload,   *)
(*     and no byte was consumed from the input in between.             *)
(* ------------------------------------------------------------------ *)
C3_RetransmitSameBlock ==
    [][ (s_pc = "send_stream" /\ s_pc' = "await_ack"
         /\ s_last_resp \in {"Other", "Timeout"})
        => (packet' = packet /\ stream_pos' = stream_pos) ]_vars

(* ------------------------------------------------------------------ *)
(* C4  Recovery from one corrupted frame: with max_errors 16, no noise *)
(*     and no timeouts, once one data frame was corrupted on the line  *)
(*     and answered with NAK, the run still goes on until both calls   *)
(*     returned Ok, the sink holding the padded input, every block     *)
(*     written once.                                                   *)
(* ------------------------------------------------------------------ *)
C4_RecoversFromCorruptFrame ==
    (env = [Quiet EXCEPT !.corrupt = MaxCorrupt] /\ corrupt_used = 1
     /\ max_errors = DefaultMaxErrors /\ r_naks >= 1) =>
        /\ Done \/ Running
        /\ s_pc = "done" => s_result = Ok(data_len)
        /\ r_pc = "done" => r_result = Ok(Len(Delivered)) /\ outstream = Delivered

(* ------------------------------------------------------------------ *)
(* C5  Success means acknowledged: when send has returned Ok, an ACK   *)
(*     was read for every data frame it wrote.                         *)
(* ------------------------------------------------------------------ *)
C5_OkMeansAllAcked ==
    s_result.kind = "Ok" => s_acked = s_sent

(* ------------------------------------------------------------------ *)
(* C7  Double CAN during the handshake (default budget): once the      *)
(*     sender has read CAN, CAN ahead of the mode byte it has failed   *)
(*     with Canceled, and once the receiver has read CAN, CAN ahead of *)
(*     the first frame it has failed with Canceled.                    *)
(* ------------------------------------------------------------------ *)
C7_DoubleCanCancels ==
    /\ (env.noise_s = <<CAN, CAN>> /\ max_errors = DefaultMaxErrors
        /\ cancels >= 2) => s_result = Err("Canceled")
    /\ (env.noise_r = <<CAN, CAN>> /\ max_errors = DefaultMaxErrors
        /\ r_read >= 2) => r_result = Err("Canceled")

(* ------------------------------------------------------------------ *)
(* C8  Leading noise tolerance: whatever bytes reach the receiver      *)
(*     ahead of the first frame, the run goes on until both calls      *)
(*     returned Ok and the sink holds what a transfer without noise    *)
(*     delivers.                                                       *)
(* ------------------------------------------------------------------ *)
C8_AnyNoiseSkipped ==
    NoiseOnlyToRecv =>
        /\ Done \/ Running
        /\ s_pc = "done" => s_result = Ok(data_len)
        /\ r_pc = "done" => r_result = Ok(Len(Delivered)) /\ outstream = Delivered

\* What recv does skip: noise none of whose bytes is SOH, STX or EOT is
\* taken off the line one byte at a time without counting an error, and the
\* transfer then completes as over a quiet line.
C8_NoiseWithoutMarkersSkipped ==
    (NoiseOnlyToRecv
     /\ \A i \in DOMAIN env.noise_r : env.noise_r[i] \notin {SOH, STX, EOT}) =>
        /\ Done \/ Running
        /\ r_errors = 0
        /\ s_pc = "done" => s_result = Ok(data_len)
        /\ r_pc = "done" => r_result = Ok(Len(Delivered)) /\ outstream = Delivered

(* ------------------------------------------------------------------ *)
(* C10 Cancellation signal on exhaustion: a call that returned         *)
(*     ExhaustedRetries has written at least one CAN byte.             *)
(* ------------------------------------------------------------------ *)
C10_CanBeforeExhausted ==
    /\ s_result = Err("ExhaustedRetries") => s_can >= 1
    /\ r_result = Err("ExhaustedRetries") => r_can >= 1

(* ------------------------------------------------------------------ *)
(* C6  Budget exhaustion on a dead line.  As claimed: a call that      *)
(*     returned ExhaustedRetries has counted exactly max_errors        *)
(*     timeouts, and recv has written nothing to the sink.             *)
(* ------------------------------------------------------------------ *)
C6_ExhaustedAfterMaxErrors ==
    /\ s_result = Err("ExhaustedRetries") => s_errors = max_errors
    /\ r_result = Err("ExhaustedRetries") =>
         r_errors = max_errors /\ outstream = <<>>

\* C6 as amended: on a dead line both calls eventually return
\* ExhaustedRetries and nothing else; recv after max_errors counted
\* timeouts, with nothing written to the sink and nothing acknowledged;
\* send after max_errors counted timeouts, and after one when max_errors
\* is 0 (start_send reads before it looks at the budget).
C6_DeadLineExhausts ==
    /\ <>(s_result = Err("ExhaustedRetries") /\ r_result = Err("ExhaustedRetries"))
    /\ [](s_result.kind \in {"None", "ExhaustedRetries"})
    /\ [](r_result.kind \in {"None", "ExhaustedRetries"})
    /\ [](s_result = Err("ExhaustedRetries") =>
            s_errors = (IF max_errors = 0 THEN 1 ELSE max_errors))
    /\ [](r_result = Err("ExhaustedRetries") =>
            r_errors = max_errors /\ outstream = <<>> /\ r_acks = 0)

C6_Witness ==
    /\ env.dead
    /\ max_errors = 3
    /\ s_result = Err("ExhaustedRetries") /\ s_errors = 3
    /\ r_result = Err("ExhaustedRetries") /\ r_errors = 3

(* ------------------------------------------------------------------ *)
(* C9  Sequence wraparound, over a quiet line with an input of more    *)
(*     than 256 blocks: the frame of block k carries k mod 256 and     *)
(*     255 - (k mod 256) (block 256 carries 0, block 257 carries 1),   *)
(*     recv accepts every block in order and never cancels, and the    *)
(*     run goes on until both calls returned Ok with the sink holding  *)
(*     the padded input.                                               *)
(* ------------------------------------------------------------------ *)
C9_SequenceWraps ==
    /\ s_sent = s_seqno
    /\ s_seqno >= 1 => packet.seqno = s_seqno % 256
    /\ s_seqno = 256 => packet.seqno = 0
    /\ s_seqno = 257 => packet.seqno = 1
    /\ (s_pc = "await_ack" /\ to_recv # <<>>) =>
         /\ to_recv[2] = s_seqno % 256
         /\ to_recv[3] = 255 - (s_seqno % 256)
    /\ s_result.kind \in {"None", "Ok"}
    /\ r_result.kind \in {"None", "Ok"}
    /\ r_pc # "idle" => r_seqno = r_acks + 1
    /\ out_len = r_acks * BlockStandard
    /\ out_ok
    /\ Done \/ Running
    /\ Done => /\ s_result = Ok(data_len)
               /\ r_result = Ok(LongBlocks * BlockStandard)
               /\ out_len = LongBlocks * BlockStandard

C9_Witness ==
    /\ Done /\ BothOk
    /\ s_seqno > 256
    /\ packet.seqno = s_seqno - 256
    /\ r_acks = s_seqno
    /\ out_ok /\ out_len > data_len

(* ------------------------------------------------------------------ *)
(* C11 Sequence desynchronization is fatal at the receiver: in a turn  *)
(*     where recv_next returns a frame with a consistent pair and a    *)
(*     correct checksum whose sequence byte is not the expected        *)
(*     counter mod 256 (a duplicate of the block just accepted too),   *)
(*     or reports an inconsistent pair, recv writes CAN CAN and only   *)
(*     that, returns Canceled, writes nothing to the sink, sends no    *)
(*     ACK or NAK and leaves the error counter as it was.              *)
(* ------------------------------------------------------------------ *)
C11_DesyncIsFatal ==
    [][ (RecvTurn
         /\ \/ Decoded.res = "SequenceMismatch"
            \/ Decoded.res = "Packet" /\ Decoded.seqno # r_seqno % 256)
        => /\ to_send' = to_send \o <<CAN, CAN>>
           /\ r_pc' = "done" /\ r_result' = Err("Canceled")
           /\ outstream' = outstream /\ out_len' = out_len
           /\ r_errors' = r_errors
           /\ r_acks' = r_acks /\ r_naks' = r_naks
           /\ r_seqno' = r_seqno /\ r_bytes' = r_bytes ]_vars

\* block 1 was accepted and the frame after it, whole and with the wrong
\* sequence byte or pair, ended recv
C11_Witness ==
    /\ r_result = Err("Canceled")
    /\ r_acks = 1 /\ r_errors = 0
    /\ checksum = "CRC16"
    /\ r_read = 2 * FrameLen(SOH, "CRC16")
    /\ to_send = <<CRC, ACK, CAN, CAN>>
    /\ outstream = TestBlock(1, BlockStandard)

(* ------------------------------------------------------------------ *)
(* C12 Sink failure at the receiver: in a turn where recv_next returns *)
(*     the expected frame and the sink (a slice) has no room for its   *)
(*     payload, recv writes CAN CAN to the channel and no ACK, leaves  *)
(*     the expected counter and the byte count as they were, and       *)
(*     returns the Io error.                                           *)
(* ------------------------------------------------------------------ *)
C12_SinkFailureCancels ==
    [][ (RecvTurn
         /\ Decoded.res = "Packet" /\ Decoded.seqno = r_seqno % 256
         /\ env.sink = "slice" /\ Len(Decoded.data) > env.cap - out_len)
        => /\ to_send' = to_send \o <<CAN, CAN>>
           /\ r_pc' = "done" /\ r_result' = Err("Io")
           /\ r_seqno' = r_seqno /\ r_bytes' = r_bytes
           /\ r_acks' = r_acks /\ r_errors' = r_errors ]_vars

\* block 1 filled the slice and the write of block 2 failed
C12_Witness ==
    /\ env.sink = "slice" /\ env.cap = BlockStandard
    /\ r_result = Err("Io")
    /\ checksum = "Standard"
    /\ to_send = <<NAK, ACK, CAN, CAN>>
    /\ r_read = 2 * FrameLen(SOH, "Standard")
    /\ r_seqno = 2 /\ r_acks = 1
    /\ outstream = TestBlock(1, BlockStandard)

(* ------------------------------------------------------------------ *)
(* C13 Checksum-mode negotiation: recv writes one mode-request byte,   *)
(*     NAK for Standard and 0x43 for CRC16, before it reads anything;  *)
(*     send leaves the handshake only on reading NAK or 0x43 and       *)
(*     adopts Standard for NAK, CRC16 for 0x43, and keeps that mode;   *)
(*     every frame it writes is header, payload and 1 checksum byte    *)
(*     (Standard) or the 2 CRC bytes high byte first (CRC16); when     *)
(*     nothing precedes the mode request on the line, the sender's     *)
(*     mode is the one the receiver's caller chose.                    *)
(* ------------------------------------------------------------------ *)
C13_ModeNegotiation ==
    /\ [][ (r_pc = "idle" /\ r_pc' # "idle")
           => /\ r_read' = 0
              /\ to_send' = Append(to_send, IF checksum = "Standard"
                                            THEN NAK ELSE CRC) ]_vars
    /\ [][ (s_pc = "start_send" /\ s_pc' = "send_stream")
           => /\ to_send # <<>> /\ Head(to_send) \in {NAK, CRC}
              /\ s_checksum_mode' = (IF Head(to_send) = NAK
                                     THEN "Standard" ELSE "CRC16") ]_vars
    /\ [][ (s_pc \notin {"idle", "start_send"})
           => s_checksum_mode' = s_checksum_mode ]_vars
    /\ [][ (s_pc = "send_stream" /\ s_pc' = "await_ack")
           => LET f == SubSeq(to_recv', Len(to_recv) + 1, Len(to_recv'))
                  n == Len(f)
              IN  /\ SubSeq(f, 4, 3 + block_length) = packet'.data
                  /\ IF s_checksum_mode = "Standard"
                     THEN /\ n = 3 + block_length + 1
                          /\ f[n] = calc_checksum(packet'.data)
                     ELSE /\ n = 3 + block_length + 2
                          /\ (f[n - 1] * 256) + f[n] = calc_crc(packet'.data)
         ]_vars
    /\ []((env = Quiet /\ s_pc \notin {"idle", "start_send"})
            => s_checksum_mode = checksum)

\* a transfer in CRC16 mode over a quiet line, two frames written
C13_Witness ==
    /\ env = Quiet /\ checksum = "CRC16" /\ s_checksum_mode = "CRC16"
    /\ Done /\ BothOk
    /\ s_sent = 2 /\ r_acks = 2

(* ------------------------------------------------------------------ *)
(* C14 Error counter lifecycle: send and recv each start with the      *)
(*     counter at 0 whatever an earlier transfer left in it; during a  *)
(*     transfer the counter never decreases, and the handshake, the    *)
(*     block transmission and the EOT phase of send count on the one   *)
(*     counter, which grows by at most one per step.                   *)
(* ------------------------------------------------------------------ *)
C14_ErrorCounterLifecycle ==
    /\ [][ (s_pc = "idle" /\ s_pc' # "idle") => s_errors' = 0 ]_vars
    /\ [][ (r_pc = "idle" /\ r_pc' # "idle") => r_errors' = 0 ]_vars
    /\ [][ (s_pc # "idle")
           => s_errors' \in {s_errors, s_errors + 1} ]_vars
    /\ [][ (r_pc # "idle")
           => r_errors' \in {r_errors, r_errors + 1} ]_vars
    /\ [](s_result = Err("ExhaustedRetries") => s_errors = max_errors)
    /\ [](r_result = Err("ExhaustedRetries") => r_errors = max_errors)

\* the counter an earlier transfer left at 16 counted one fault in each of
\* the three phases of send, and the third exhausted the budget
C14_Witness ==
    /\ env.left = DefaultMaxErrors /\ env.noise_s = <<85>>
    /\ max_errors = 3 /\ data_len = 1
    /\ s_sent = 1 /\ s_last_resp = "Timeout"
    /\ s_result = Err("ExhaustedRetries") /\ s_errors = 3
    /\ timeouts_used = 2
    /\ r_pc = "done" /\ r_errors = 0

(* ------------------------------------------------------------------ *)
(* C15 Budget enforcement: a send whose error counter has reached      *)
(*     max_errors has returned ExhaustedRetries, or Canceled when the  *)
(*     fault was the second CAN of the handshake, and has put no       *)
(*     further frame or EOT on the line; a recv whose counter has      *)
(*     reached max_errors does nothing but write CAN CAN and return    *)
(*     ExhaustedRetries: it reads no frame, writes nothing to the sink *)
(*     and sends no ACK.  Neither counter goes past max_errors.        *)
(* ------------------------------------------------------------------ *)
C15_BudgetEnforced ==
    /\ [](s_pc # "idle" /\ s_errors >= max_errors
          => /\ s_errors = max_errors
             /\ s_pc = "done"
             /\ s_result \in {Err("ExhaustedRetries"), Err("Canceled")}
             /\ s_result = Err("Canceled") => cancels >= 2)
    /\ [][ (s_pc # "idle" /\ s_errors >= max_errors)
           => (send_vars' = send_vars
               /\ Len(to_recv') <= Len(to_recv)) ]_vars
    /\ [](r_pc # "idle" => r_errors <= max_errors)
    /\ [][ (r_pc = "recv_loop" /\ r_errors >= max_errors
            /\ recv_vars' # recv_vars)
           => /\ r_pc' = "done"
              /\ r_result' = Err("ExhaustedRetries")
              /\ to_send' = to_send \o <<CAN, CAN>>
              /\ to_recv' = to_recv
              /\ r_read' = r_read
              /\ outstream' = outstream /\ out_len' = out_len
              /\ r_acks' = r_acks /\ r_naks' = r_naks
              /\ r_seqno' = r_seqno /\ r_bytes' = r_bytes ]_vars

\* both ends ran out of budget after the first block: the sender on a
\* timeout of its wait for the ACK, the receiver, which had accepted the
\* block, on a timeout of its wait for the next frame
C15_Witness ==
    /\ max_errors = 1
    /\ s_result = Err("ExhaustedRetries") /\ s_errors = 1
    /\ s_sent = 1 /\ s_last_resp = "Timeout"
    /\ r_result = Err("ExhaustedRetries") /\ r_errors = 1
    /\ r_acks = 1 /\ r_can = 2

(* ------------------------------------------------------------------ *)
(* C16 Frame consumption in recv_next: behind a leading SOH or STX the *)
(*     decoder takes seqno, complement, 128 or 1024 payload bytes and  *)
(*     1 (Standard) or 2 (CRC16) redundancy bytes off the line before  *)
(*     it reports a packet, a sequence mismatch or a checksum error;   *)
(*     a leading EOT or any other leading byte costs that one byte.    *)
(* ------------------------------------------------------------------ *)
C16_FrameConsumption ==
    [][ (RecvTurn /\ to_recv # <<>> /\ Decoded.res # "TimedOut")
        => LET n == IF to_recv[1] \in {SOH, STX}
                    THEN 3 + (IF to_recv[1] = SOH THEN 128 ELSE 1024)
                           + (IF r_checksum_mode = "Standard" THEN 1 ELSE 2)
                    ELSE 1
           IN  /\ Len(to_recv) >= n
               /\ to_recv' = SubSeq(to_recv, n + 1, Len(to_recv))
               /\ r_read' = r_read + n
               /\ (to_recv[1] \in {SOH, STX})
                  <=> (Decoded.res \in {"Packet", "SequenceMismatch",
                                        "Checksum"})
               /\ (to_recv[1] = EOT) <=> (Decoded.res = "Eot") ]_vars

\* a 1024-byte frame went whole into the sink, a frame with a bad
\* complement behind it was read to its end and ended the transfer
C16_Witness ==
    /\ r_result = Err("Canceled")
    /\ r_acks = 1 /\ out_len = BlockOneK
    /\ r_read = FrameLen(STX, r_checksum_mode)
                + FrameLen(SOH, r_checksum_mode)
    /\ to_recv = <<>>

(* ------------------------------------------------------------------ *)
(* C17 Checksum error at the receiver: in a turn where recv_next       *)
(*     reports a checksum error (the frame's pair is consistent, its   *)
(*     redundancy bytes are not those of its payload), recv writes one *)
(*     NAK and nothing else, adds one to the error counter, writes     *)
(*     nothing to the sink, leaves the expected counter and the byte   *)
(*     count as they were and is back at the top of its loop.          *)
(* ------------------------------------------------------------------ *)
C17_ChecksumErrorNaks ==
    [][ (RecvTurn /\ Decoded.res = "Checksum")
        => /\ to_recv[1] \in {SOH, STX}
           /\ to_recv[2] + to_recv[3] = 255
           /\ to_send' = to_send \o <<NAK>>
           /\ r_naks' = r_naks + 1 /\ r_acks' = r_acks /\ r_can' = r_can
           /\ r_errors' = r_errors + 1
           /\ outstream' = outstream /\ out_len' = out_len
           /\ r_seqno' = r_seqno /\ r_bytes' = r_bytes
           /\ r_pc' = "recv_loop" /\ r_result' = r_result ]_vars

\* a frame of block 1 with a wrong checksum byte was answered with NAK,
\* the frame of block 1 that followed was accepted
C17_Witness ==
    /\ checksum = "Standard"
    /\ to_send = <<NAK, NAK, ACK>>
    /\ r_errors = 1 /\ r_naks = 1 /\ r_acks = 1
    /\ r_read = 2 * FrameLen(SOH, "Standard")
    /\ outstream = TestBlock(1, BlockStandard)
    /\ r_seqno = 2

C19_CancelNeedsConsecutiveCans ==
    (s_result = Err("Canceled") /\ env.timeouts = 0)
    => /\ s_errors >= 2 /\ s_errors <= Len(env.noise_s)
       /\ env.noise_s[s_errors] = CAN
       /\ env.noise_s[s_errors - 1] = CAN

(* ------------------------------------------------------------------ *)
(* C20 Receiver accept ordering: in a turn where recv_next returns the *)
(*     expected frame, recv appends its payload to the sink, then      *)
(*     writes ACK, then adds one to the expected counter; when the     *)
(*     sink fails no ACK is written.  Every payload written came from  *)
(*     a frame whose seqno is its index mod 256; a payload is written  *)
(*     only in such a turn, and a turn that writes one either sends    *)
(*     its ACK or ends recv, so the ACKs for data frames are the       *)
(*     payloads written less at most one.  The value recv returns on   *)
(*     success is the number of bytes written to the sink.             *)
(* ------------------------------------------------------------------ *)
C20_AcceptOrdering ==
    /\ [](r_pc # "idle"
          => /\ r_seqno = r_acks + 1
             /\ CountOf(ACK, to_send)
                  = r_acks + (IF r_result.kind = "Ok" THEN 1 ELSE 0)
             /\ r_result.kind = "Ok" => r_result.bytes = out_len
             /\ r_result # Err("Io") => r_bytes = out_len)
    /\ [][ (RecvTurn /\ Decoded.res = "Packet"
            /\ Decoded.seqno = r_seqno % 256)
           => IF env.sink # "slice" \/ Len(Decoded.data) <= env.cap - out_len
              THEN /\ Decoded.seqno = (r_acks + 1) % 256
                   /\ outstream' = outstream \o Decoded.data
                   /\ out_len' = out_len + Len(Decoded.data)
                   /\ to_send' = to_send \o <<ACK>>
                   /\ r_acks' = r_acks + 1
                   /\ r_seqno' = r_seqno + 1
                   /\ r_bytes' = r_bytes + Len(Decoded.data)
                   /\ r_pc' = "recv_loop"
              ELSE /\ CountOf(ACK, to_send') = CountOf(ACK, to_send)
                   /\ r_acks' = r_acks /\ r_seqno' = r_seqno
                   /\ r_pc' = "done" ]_vars
    /\ [][ (out_len' # out_len)
           => /\ RecvTurn /\ Decoded.res = "Packet"
              /\ Decoded.seqno = r_seqno % 256
              /\ r_acks' = r_acks + 1 \/ r_pc' = "done" ]_vars
    /\ [][ (r_acks' # r_acks) => out_len' > out_len ]_vars

\* the frames of blocks 1 and 2 were accepted in turn: two payloads in the
\* sink, two ACKs on the line, block 3 expected
C20_Witness ==
    /\ checksum = "Standard"
    /\ r_pc = "recv_loop"
    /\ r_acks = 2 /\ r_seqno = 3 /\ r_bytes = 2 * BlockStandard
    /\ outstream = TestBlock(1, BlockStandard) \o TestBlock(2, BlockStandard)
    /\ to_send = <<NAK, ACK, ACK>>

(* ------------------------------------------------------------------ *)
(* C21 Strict alternation: on a line without timeouts, noise or        *)
(*     corruption, the sender puts a frame or EOT on the line only     *)
(*     when it has read the mode request and the answer to every       *)
(*     transmission before; the receiver, once its mode request is     *)
(*     out, writes only in a turn that has read a whole frame or EOT,  *)
(*     and what it writes is one ACK; the two directions of the line   *)
(*     never hold unread bytes at the same time.                       *)
(* ------------------------------------------------------------------ *)
C21_StrictAlternation ==
    /\ [](env = Quiet => (to_recv = <<>> \/ to_send = <<>>))
    /\ [][ (env = Quiet /\ Len(to_recv') > Len(to_recv))
           => /\ s_pc \in {"send_stream", "finish_send"}
              /\ r_pc # "idle"
              /\ to_send = <<>> /\ to_recv = <<>>
              /\ s_acked = s_sent /\ r_acks = s_sent
              /\ s_last_resp = (IF s_sent = 0 THEN "None" ELSE "Ack") ]_vars
    /\ [][ (env = Quiet /\ r_pc # "idle" /\ Len(to_send') > Len(to_send))
           => /\ RecvTurn
              /\ Decoded.res \in {"Packet", "Eot"}
              /\ r_read' = r_read + Decoded.used
              /\ to_recv' = <<>>
              /\ to_send = <<>> /\ to_send' = <<ACK>> ]_vars

\* a quiet transfer of two blocks ran to its end: each frame and the EOT
\* were written after the answer before, each answer after its frame
C21_Witness ==
    /\ env = Quiet
    /\ s_sent = 2 /\ s_acked = 2 /\ r_acks = 2
    /\ s_result.kind = "Ok" /\ r_result.kind = "Ok"
    /\ to_recv = <<>> /\ to_send = <<>>

(* ------------------------------------------------------------------ *)
(* C22 Receiver termination: every call to recv returns in the end,    *)
(*     whatever the peer does, as long as every read delivers a byte   *)
(*     or reports a timeout.                                           *)
(* ------------------------------------------------------------------ *)
C22_RecvReturns == (r_pc # "idle") ~> (r_pc = "done")

(* ------------------------------------------------------------------ *)
(* C23 No corruption, reordering or duplication at the sink: on a line *)
(*     that may lose whole frames but alters no byte, the bytes        *)
(*     written to the sink so far are a prefix of the input padded     *)
(*     with the pad byte to whole blocks.                              *)
(* ------------------------------------------------------------------ *)
C23_SinkIsPrefix ==
    /\ out_ok
    /\ out_len <= data_len + (block_length - (data_len % block_length))
    /\ env.sink = "vec"
       => /\ Len(outstream) = out_len
          /\ \A i \in 1..Len(outstream) : outstream[i] = PaddedByte(i)

=============================================================================
